---- MODULE Spec2Model ----
(***************************************************************************)
(* Model of the observability core of orion:                               *)
(*   - orion-lib/src/body/body_with_metrics.rs : BodyWithMetrics, the      *)
(*     DropGuard and the single-use completion slot (SpecBody);            *)
(*   - orion-tracing/src/request_id.rs : RequestId::from_request,          *)
(*     RequestIdManager::apply_policy / apply_to (SpecReqId);              *)
(*   - orion-tracing/src/span_state.rs and the with_*_span macros of       *)
(*     orion-lib/src/tracing_attributes.rs : SpanState (SpecSpan).         *)
(***************************************************************************)
EXTENDS Integers, Sequences, FiniteSets, TLC

(***************************************************************************)
(* Bounds of the model.                                                    *)
(***************************************************************************)
\* number of times the consumer polls the body
MaxPolls == 3
\* most data bytes the inner body holds
MaxBodyBytes == 3
\* number of clones of the DropGuard that other threads may hold and drop
MaxClones == 1
\* threads sharing one SpanState
MaxSpanThreads == 2
\* operations (end, with_server_span, with_client_span) started on it
MaxSpanOps == 3

VARIABLES
    \* ---- body_with_metrics.rs ----
    mode,           \* "enabled" | "disabled": which cfg variant is compiled in
    kind,           \* MetricsState.kind
    inner,          \* the inner body: the data bytes it has yet to produce
    mapped,         \* map_into has converted the inner body
    polls,          \* number of polls the consumer has made
    alive,          \* the BodyWithMetrics has not been dropped
    bytes_counter,  \* MetricsState.bytes_counter
    on_complete,    \* MetricsState.on_complete: "Some" | "None"
    mutex,          \* holder of the parking_lot::Mutex around on_complete
    pc,             \* position of every thread
    flagsArg,       \* trigger_on_complete's `flags` argument, per thread
    closure,        \* trigger_on_complete's local result of guard.take()
    poll,           \* poll_frame's local `poll`: what the inner body produced
    calls,          \* invocations of the on_complete closure: <<[bytes, flags]>>
    lastRet,        \* what poll_frame returned at the latest poll
    obs,            \* latest is_end_stream / size_hint answers of the wrapper
    retBytes,       \* history: total length of data frames returned so far
    retAtCall,      \* history: retBytes when the closure was invoked
    firstTerminal,  \* history: the first end-of-stream or error a poll produced
    winner          \* history: the trigger that invoked the closure

bodyVars == <<mode, kind, inner, mapped, polls, alive, bytes_counter, on_complete, mutex, pc,
              flagsArg, closure, poll, calls, lastRet, obs,
              retBytes, retAtCall, firstTerminal, winner>>

VARIABLES
    \* ---- request_id.rs ----
    manager,        \* the RequestIdManager: its three configuration flags
    featTracing,    \* cfg(feature = "tracing")
    accessLog,      \* apply_policy's _access_log_enabled argument
    origHdr,        \* x-request-id header of the request as received
    reqHdr,         \* x-request-id header of the request (apply_policy's req)
    incoming,       \* apply_policy's incoming_request_id argument
    viaFromRequest, \* history: incoming is from_request's result for this request
    drawn,          \* history: the value generate_new_id returned
    req_id,         \* the identifier apply_policy returned
    respBefore,     \* x-request-id header of the response before apply_to
    respHdr,        \* x-request-id header of the response
    respOther,      \* another header of the response (content-type)
    applyArg,       \* apply_to's req_id argument
    stage           \* "received" | "parsed" | "policy" | "responded"

reqVars == <<manager, featTracing, accessLog, origHdr, reqHdr, incoming,
             viaFromRequest, drawn, req_id, respBefore, respHdr, respOther,
             applyArg, stage>>

VARIABLES
    \* ---- span_state.rs, tracing_attributes.rs ----
    span,           \* SpanState.server_span / client_span: Option<BoxedSpan>
    lock,           \* holder of each slot's parking_lot::Mutex
    spc,            \* position of every thread using the SpanState
    created,        \* history: was the slot populated when the threads began
    endsDone,       \* history: calls of end() that have returned
    closureRuns,    \* history: closures run by with_*_span, per slot
    spanOps         \* operations started so far

spanVars == <<span, lock, spc, created, endsDone, closureRuns, spanOps>>

vars == <<bodyVars, reqVars, spanVars>>

\* Option<T>: None is the empty sequence, Some(x) the sequence holding x
None == <<>>
Some(x) == <<x>>

\* the request-id variables while the body model runs
ReqIdle ==
    /\ manager = [generate |-> FALSE, preserve |-> FALSE, always_set |-> FALSE]
    /\ featTracing = FALSE /\ accessLog = FALSE
    /\ origHdr = None /\ reqHdr = None /\ incoming = None
    /\ viaFromRequest = FALSE /\ drawn = None /\ req_id = None
    /\ respBefore = None /\ respHdr = None /\ respOther = None /\ applyArg = None
    /\ stage = "idle"

(***************************************************************************)
(* Values.                                                                 *)
(***************************************************************************)
BodyKinds == {"Request", "Response"}
Errors == {"E1", "E2"}

NoObs == [valid |-> FALSE, end |-> FALSE, hint |-> 0]
NoPoll == [t |-> "nopoll"]
Pending == [t |-> "pending"]
EndOfStream == [t |-> "end"]
Trailers == [t |-> "trailers"]
DataFrame(n) == [t |-> "data", n |-> n]
ErrorResult(e) == [t |-> "err", e |-> e]


\* ResponseFlags::default()
DefaultFlags == <<>>

\* ResponseFlags::from((&err, kind)): the external classifier
Classify(err, k) == <<err, k>>

\* the length of a data frame; other poll results carry no data
DataLen(r) == IF r.t = "data" THEN r.n ELSE 0

\* threads: the owner of the BodyWithMetrics, and the holders of guard clones
Owner == 0
Clones == 1..MaxClones
Threads == {Owner} \cup Clones
NoHolder == -1

\* the two slots of a SpanState
Slots == {"server_span", "client_span"}
SpanThreads == 1..MaxSpanThreads

\* the span variables while another part of the model runs
SpanIdle ==
    /\ span = [s \in Slots |-> None]
    /\ lock = [s \in Slots |-> NoHolder]
    /\ spc = [t \in SpanThreads |-> "off"]
    /\ created = [s \in Slots |-> FALSE]
    /\ endsDone = 0
    /\ closureRuns = [s \in Slots |-> 0]
    /\ spanOps = 0

(***************************************************************************)
(* The inner body B: it holds `inner` bytes of data, which it hands out in *)
(* data frames; at any poll it may also be pending, produce trailers, fail *)
(* or end.                                                                 *)
(***************************************************************************)
\* Poll<Option<Result<Frame<Data>, Error>>>: what a poll of B may produce
InnerPoll(left) ==
    {DataFrame(n) : n \in 0..left} \cup {ErrorResult(e) : e \in Errors}
        \cup {Trailers, Pending, EndOfStream}

\* B after it produced r
InnerAfter(left, r) == left - DataLen(r)

\* B::is_end_stream: no data is left
InnerIsEndStream(left) == left = 0

\* B::size_hint: the bytes left
InnerSizeHint(left) == left

\* B: Into<B2>: the conversion changes the body's type and keeps its data
InnerInto(left) == left

(***************************************************************************)
(* metrics_enabled                                                         *)
(***************************************************************************)
\* Mutex::lock(): the lock is granted when nobody holds it
\* (faulty variant: a lock that excludes nobody)
LockAlwaysGranted(m) == TRUE
LockFree(m) == m = NoHolder

\* Option::take(): what is left in the slot
SlotAfterTake(slot) == "None"

\* poll_frame, lines 112-117: what a poll result adds to bytes_counter
\* (faulty variant: a trailers frame is counted as well)
CountedLenAnyFrame(r) == IF r.t = "data" THEN r.n ELSE IF r.t = "trailers" THEN 1 ELSE 0
\* (faulty variant: frames are counted, not their bytes)
CountedLenPerFrame(r) == IF r.t = "data" THEN 1 ELSE 0
CountedLen(r) == IF r.t = "data" THEN r.n ELSE 0

\* the flags poll_frame hands to trigger_on_complete
\* (faulty variant: the error is not classified)
PollFlagsDefault(r, k) == DefaultFlags
PollFlags(r, k) == IF r.t = "err" THEN Classify(r.e, k) ELSE DefaultFlags

\* the flags DropGuard::drop hands to trigger_on_complete
\* (faulty variant: a drop reports an error)
DropFlagsError == Classify("E1", "Response")
DropFlags == DefaultFlags

\* does this poll result lead poll_frame to trigger_on_complete
\* (faulty variants: Pending completes; a trailers frame completes)
PollTriggersOnPending(r) == r.t \in {"end", "err", "pending"}
PollTriggersOnTrailers(r) == r.t \in {"end", "err", "trailers"}
PollTriggers(r) == r.t \in {"end", "err"}

\* the value poll_frame returns for the inner body's result
\* (faulty variant: an error is turned into end-of-stream)
PollFrameAbsorbsError(r) == IF r.t = "err" THEN EndOfStream ELSE r
PollFrameReturn(r) == r

\* which of the triggers a thread is running: a poll of the owner (with the
\* poll's result), the drop of the wrapper, or the drop of a guard clone
TriggerOf(t, live, r) ==
    IF t # Owner THEN [by |-> "clone"]
    ELSE IF live THEN [by |-> "poll", r |-> r] ELSE [by |-> "drop"]

\* is_end_stream / size_hint of the wrapper
WrapperIsEndStream(s) == InnerIsEndStream(s)
WrapperSizeHint(s) == InnerSizeHint(s)

InitBody ==
    /\ mode \in {"enabled", "disabled"}
    /\ kind \in BodyKinds
    /\ inner \in 0..MaxBodyBytes
    /\ mapped = FALSE
    /\ polls = 0
    /\ alive = TRUE
    /\ bytes_counter = 0
    /\ on_complete = IF mode = "enabled" THEN "Some" ELSE "None"
    /\ mutex = NoHolder
    /\ pc = [t \in Threads |-> IF t = Owner THEN "idle" ELSE "none"]
    /\ flagsArg = [t \in Threads |-> DefaultFlags]
    /\ closure = [t \in Threads |-> "None"]
    /\ poll = NoPoll
    /\ calls = <<>>
    /\ lastRet = NoPoll
    /\ obs = NoObs
    /\ retBytes = 0
    /\ retAtCall = <<>>
    /\ firstTerminal = NoPoll
    /\ winner = <<>>
    /\ ReqIdle
    /\ SpanIdle

\* poll_frame, lines 109-126: poll the inner body, count a data frame, and
\* enter trigger_on_complete on end-of-stream or an error
PollInner ==
    /\ mode = "enabled" /\ alive /\ pc[Owner] = "idle" /\ polls < MaxPolls
    /\ \E r \in InnerPoll(inner) :
        /\ poll' = r
        /\ inner' = InnerAfter(inner, r)
        /\ polls' = polls + 1
        /\ bytes_counter' = bytes_counter + CountedLen(r)
        /\ flagsArg' = [flagsArg EXCEPT ![Owner] = PollFlags(r, kind)]
        /\ pc' = [pc EXCEPT ![Owner] = IF PollTriggers(r) THEN "lock" ELSE "ret"]
        /\ firstTerminal' = IF firstTerminal = NoPoll /\ r.t \in {"end", "err"}
                            THEN r ELSE firstTerminal
    /\ obs' = NoObs
    /\ lastRet' = NoPoll
    /\ UNCHANGED <<reqVars, spanVars>>
    /\ UNCHANGED <<mapped, mode, kind, alive, on_complete, mutex, closure, calls, retBytes,
                   retAtCall, winner>>

\* poll_frame, line 127: hand the inner body's result to the consumer
PollReturn ==
    /\ pc[Owner] = "ret"
    /\ lastRet' = PollFrameReturn(poll)
    /\ retBytes' = retBytes + DataLen(PollFrameReturn(poll))
    /\ pc' = [pc EXCEPT ![Owner] = "idle"]
    /\ UNCHANGED <<reqVars, spanVars>>
    /\ UNCHANGED <<mapped, mode, kind, inner, polls, alive, bytes_counter, on_complete, mutex,
                   flagsArg, closure, poll, calls, obs, retAtCall, firstTerminal,
                   winner>>

\* trigger_on_complete, line 60: state.on_complete.lock()
TrigLock(t) ==
    /\ pc[t] = "lock"
    /\ LockFree(mutex)
    /\ mutex' = t
    /\ pc' = [pc EXCEPT ![t] = "take"]
    /\ UNCHANGED <<reqVars, spanVars>>
    /\ UNCHANGED <<mapped, mode, kind, inner, polls, alive, bytes_counter, on_complete,
                   flagsArg, closure, poll, calls, lastRet, obs, retBytes, retAtCall,
                   firstTerminal, winner>>

\* trigger_on_complete, line 61: guard.take() reads what the slot holds ...
TrigTake(t) ==
    /\ pc[t] = "take"
    /\ closure' = [closure EXCEPT ![t] = on_complete]
    /\ pc' = [pc EXCEPT ![t] = "call"]
    /\ UNCHANGED <<reqVars, spanVars>>
    /\ UNCHANGED <<mapped, mode, kind, inner, polls, alive, bytes_counter, on_complete, mutex,
                   flagsArg, poll, calls, lastRet, obs, retBytes, retAtCall,
                   firstTerminal, winner>>

\* ... and leaves None in it; lines 61-64: if a closure was taken, load the
\* counter and call the closure
TrigCall(t) ==
    /\ pc[t] = "call"
    /\ on_complete' = SlotAfterTake(on_complete)
    /\ pc' = [pc EXCEPT ![t] = "unlock"]
    /\ IF closure[t] = "Some"
       THEN /\ calls' = Append(calls, [bytes |-> bytes_counter, flags |-> flagsArg[t]])
            /\ retAtCall' = Append(retAtCall, retBytes)
            /\ winner' = Append(winner, TriggerOf(t, alive, poll))
       ELSE UNCHANGED <<calls, retAtCall, winner>>
    /\ UNCHANGED <<reqVars, spanVars>>
    /\ UNCHANGED <<mapped, mode, kind, inner, polls, alive, bytes_counter, mutex, flagsArg,
                   closure, poll, lastRet, obs, retBytes, firstTerminal>>

\* trigger_on_complete, line 65: the MutexGuard goes out of scope
TrigUnlock(t) ==
    /\ pc[t] = "unlock"
    /\ mutex' = IF mutex = t THEN NoHolder ELSE mutex
    /\ closure' = [closure EXCEPT ![t] = "None"]
    /\ pc' = [pc EXCEPT ![t] = IF t = Owner /\ alive THEN "ret" ELSE "gone"]
    /\ UNCHANGED <<reqVars, spanVars>>
    /\ UNCHANGED <<mapped, mode, kind, inner, polls, alive, bytes_counter, on_complete,
                   flagsArg, poll, calls, lastRet, obs, retBytes, retAtCall,
                   firstTerminal, winner>>

\* the BodyWithMetrics goes out of scope: its guard field is dropped, and
\* DropGuard::drop (lines 53-57) enters trigger_on_complete
DropBody ==
    /\ mode = "enabled" /\ alive /\ pc[Owner] = "idle"
    /\ alive' = FALSE
    /\ flagsArg' = [flagsArg EXCEPT ![Owner] = DropFlags]
    /\ pc' = [pc EXCEPT ![Owner] = "lock"]
    /\ UNCHANGED <<reqVars, spanVars>>
    /\ UNCHANGED <<mapped, mode, kind, inner, polls, bytes_counter, on_complete, mutex,
                   closure, poll, calls, lastRet, obs, retBytes, retAtCall,
                   firstTerminal, winner>>

\* #[derive(Clone)] on DropGuard (line 48): the owner clones body.guard and
\* hands the clone to another thread
CloneGuard(g) ==
    /\ mode = "enabled" /\ alive /\ pc[Owner] = "idle" /\ pc[g] = "none"
    /\ pc' = [pc EXCEPT ![g] = "held"]
    /\ UNCHANGED <<reqVars, spanVars>>
    /\ UNCHANGED <<mapped, mode, kind, inner, polls, alive, bytes_counter, on_complete, mutex,
                   flagsArg, closure, poll, calls, lastRet, obs, retBytes, retAtCall,
                   firstTerminal, winner>>

\* the thread holding a clone drops it: DropGuard::drop (lines 53-57)
DropClone(g) ==
    /\ pc[g] = "held"
    /\ flagsArg' = [flagsArg EXCEPT ![g] = DropFlags]
    /\ pc' = [pc EXCEPT ![g] = "lock"]
    /\ UNCHANGED <<reqVars, spanVars>>
    /\ UNCHANGED <<mapped, mode, kind, inner, polls, alive, bytes_counter, on_complete, mutex,
                   closure, poll, calls, lastRet, obs, retBytes, retAtCall,
                   firstTerminal, winner>>

\* is_end_stream (lines 130-132, 184-186) and size_hint (lines 134-136, 189-191)
Observe ==
    /\ alive /\ pc[Owner] = "idle" /\ ~obs.valid
    /\ obs' = [valid |-> TRUE, end |-> WrapperIsEndStream(inner),
               hint |-> WrapperSizeHint(inner)]
    /\ UNCHANGED <<reqVars, spanVars>>
    /\ UNCHANGED <<mapped, mode, kind, inner, polls, alive, bytes_counter, on_complete, mutex,
                   pc, flagsArg, closure, poll, calls, lastRet, retBytes, retAtCall,
                   firstTerminal, winner>>

\* map_into (lines 89-94, 163-168): the wrapper is rebuilt around the
\* converted inner body; state and guard move into the new wrapper
MapInto ==
    /\ alive /\ pc[Owner] = "idle" /\ ~mapped
    /\ mapped' = TRUE
    /\ inner' = InnerInto(inner)
    /\ obs' = NoObs
    /\ UNCHANGED <<reqVars, spanVars>>
    /\ UNCHANGED <<mode, kind, polls, alive, bytes_counter, on_complete, mutex, pc,
                   flagsArg, closure, poll, calls, lastRet, retBytes, retAtCall,
                   firstTerminal, winner>>

(***************************************************************************)
(* metrics_disabled                                                        *)
(***************************************************************************)
\* what the passthrough's poll_frame returns for the inner body's result
PassthroughReturn(r) == r

\* poll_frame, lines 176-181
PollDisabled ==
    /\ mode = "disabled" /\ alive /\ pc[Owner] = "idle" /\ polls < MaxPolls
    /\ \E r \in InnerPoll(inner) :
        /\ poll' = r
        /\ lastRet' = PassthroughReturn(r)
        /\ retBytes' = retBytes + DataLen(PassthroughReturn(r))
        /\ inner' = InnerAfter(inner, r)
        /\ polls' = polls + 1
        /\ firstTerminal' = IF firstTerminal = NoPoll /\ r.t \in {"end", "err"}
                            THEN r ELSE firstTerminal
    /\ obs' = NoObs
    /\ UNCHANGED <<reqVars, spanVars>>
    /\ UNCHANGED <<mapped, mode, kind, alive, bytes_counter, on_complete, mutex, pc,
                   flagsArg, closure, calls, retAtCall, winner>>

\* the passthrough goes out of scope: guard is (), nothing runs
DropDisabled ==
    /\ mode = "disabled" /\ alive /\ pc[Owner] = "idle"
    /\ alive' = FALSE
    /\ pc' = [pc EXCEPT ![Owner] = "gone"]
    /\ UNCHANGED <<reqVars, spanVars>>
    /\ UNCHANGED <<mapped, mode, kind, inner, polls, bytes_counter, on_complete, mutex,
                   flagsArg, closure, poll, calls, lastRet, obs, retBytes, retAtCall,
                   firstTerminal, winner>>

NextBody ==
    \/ PollInner
    \/ PollReturn
    \/ DropBody
    \/ Observe
    \/ MapInto
    \/ PollDisabled
    \/ DropDisabled
    \/ \E t \in Threads : TrigLock(t)
    \/ \E t \in Threads : TrigTake(t)
    \/ \E t \in Threads : TrigCall(t)
    \/ \E t \in Threads : TrigUnlock(t)
    \/ \E g \in Clones : CloneGuard(g)
    \/ \E g \in Clones : DropClone(g)

SpecBody == InitBody /\ [][NextBody]_vars

(***************************************************************************)
(* request_id.rs.  A header value is the sequence of its bytes, each byte  *)
(* written as a one-character string; "<80>" stands for a byte that is not *)
(* visible ASCII.                                                          *)
(***************************************************************************)
\* a well-formed identifier in hyphenated form (the tests' value)
HdrHyphenated == <<"1", "2", "3", "e", "4", "5", "6", "7", "-", "e", "8", "9",
    "b", "-", "1", "2", "d", "3", "-", "a", "4", "5", "6", "-", "4", "2", "6",
    "6", "1", "4", "1", "7", "4", "0", "0", "0">>
\* the same identifier in simple form
HdrSimple == <<"1", "2", "3", "e", "4", "5", "6", "7", "e", "8", "9", "b",
    "1", "2", "d", "3", "a", "4", "5", "6", "4", "2", "6", "6", "1", "4", "1",
    "7", "4", "0", "0", "0">>
\* ... in braced form, upper case
HdrBraced == <<"{", "1", "2", "3", "E", "4", "5", "6", "7", "-", "E", "8",
    "9", "B", "-", "1", "2", "D", "3", "-", "A", "4", "5", "6", "-", "4", "2",
    "6", "6", "1", "4", "1", "7", "4", "0", "0", "0", "}">>
\* ... in URN form
HdrUrn == <<"u", "r", "n", ":", "u", "u", "i", "d", ":", "1", "2", "3", "e",
    "4", "5", "6", "7", "-", "e", "8", "9", "b", "-", "1", "2", "d", "3", "-",
    "a", "4", "5", "6", "-", "4", "2", "6", "6", "1", "4", "1", "7", "4", "0",
    "0", "0">>
\* the malformed value of test_broken_request_id_from_request
HdrBroken == <<"1", "2", "3", "e", "4", "5", "6", "7", "-", "i", "n", "v",
    "a", "l", "i", "d", "-", "6", "1", "4", "1", "7", "4">>
\* hyphenated form with a digit that is not hexadecimal
HdrBadDigit == <<"1", "2", "3", "e", "4", "5", "6", "7", "-", "e", "8", "9",
    "b", "-", "1", "2", "d", "3", "-", "a", "4", "5", "6", "-", "4", "2", "6",
    "6", "1", "4", "1", "7", "4", "0", "0", "g">>
\* an empty value
HdrEmpty == <<>>
\* a value holding a byte outside visible ASCII
HdrOpaque == <<"1", "2", "<80>", "4">>
\* a value the upstream put on the response
HdrUpstream == <<"0", "0", "0", "0", "0", "0", "0", "0", "0", "0", "0", "0",
    "4", "0", "0", "0", "8", "0", "0", "0", "0", "0", "0", "0", "0", "0", "0",
    "0", "0", "0", "0", "0">>
\* HeaderValue::from_static("unknown-request-id")
Sentinel == <<"u", "n", "k", "n", "o", "w", "n", "-", "r", "e", "q", "u", "e",
    "s", "t", "-", "i", "d">>

\* the value of the response's content-type header
HdrContentType == <<"t", "e", "x", "t", "/", "p", "l", "a", "i", "n">>

\* a well-formed version-4 identifier in simple lower-case form: a value
\* that Uuid::new_v4 can itself return
HdrSimpleV4 == <<"3", "6", "9", "c", "f", "2", "5", "8", "b", "e", "1", "4",
    "4", "a", "d", "0", "b", "6", "9", "c", "f", "2", "5", "8", "b", "e", "1",
    "4", "7", "a", "d", "0">>

\* the values a request may carry in x-request-id
HeaderValues ==
    {HdrHyphenated, HdrSimple, HdrSimpleV4, HdrBraced, HdrUrn, HdrBroken,
     HdrBadDigit, HdrEmpty, HdrOpaque}

HexLower == <<"0", "1", "2", "3", "4", "5", "6", "7", "8", "9", "a", "b", "c", "d",
              "e", "f">>
HexDigits ==
    {HexLower[i] : i \in 1..Len(HexLower)} \cup {"A", "B", "C", "D", "E", "F"}

\* HeaderValue::to_str succeeds when every byte is visible ASCII
ToStrOk(v) == \A i \in 1..Len(v) : v[i] # "<80>"

\* uuid: the hyphenated form, 8-4-4-4-12 hexadecimal digits
IsHyphenated(str) ==
    /\ Len(str) = 36
    /\ \A i \in 1..36 :
          IF i \in {9, 14, 19, 24} THEN str[i] = "-" ELSE str[i] \in HexDigits

\* uuid: the simple form, 32 hexadecimal digits
IsSimple(str) == Len(str) = 32 /\ \A i \in 1..32 : str[i] \in HexDigits

\* Uuid::parse_str(s).is_ok(): simple, hyphenated, braced or URN form
ParseStrOk(str) ==
    \/ IsSimple(str)
    \/ IsHyphenated(str)
    \/ Len(str) = 38 /\ str[1] = "{" /\ str[38] = "}" /\ IsHyphenated(SubSeq(str, 2, 37))
    \/ Len(str) = 45 /\ SubSeq(str, 1, 9) = <<"u", "r", "n", ":", "u", "u", "i", "d", ":">>
          /\ IsHyphenated(SubSeq(str, 10, 45))

\* from_request, lines 46-55: the filter on the header value
FilterAccepts(v) == IF ToStrOk(v) THEN ParseStrOk(v) ELSE FALSE

\* RequestId::Propagate(id) / RequestId::Internal(id)
Propagate(v) == [kind |-> "Propagate", id |-> v]
Internal(v) == [kind |-> "Internal", id |-> v]

\* RequestId::from_request, lines 45-61
FromRequest(hdr) ==
    LET value == IF hdr # None /\ FilterAccepts(hdr[1]) THEN hdr ELSE None
    IN  IF value = None THEN None
        ELSE IF value[1] = <<>> THEN None
        ELSE Some(Propagate(value[1]))

\* RequestId::to_value / AsRef<HeaderValue>
ToValue(rid) == rid.id

\* the 128 random bits Uuid::new_v4 draws, as 32 four-bit digits: two of the
\* 2^128 draws, one of which (k = 3) yields the value a request may carry
\* as HdrSimpleV4
RandomBits == {[i \in 1..32 |-> (k * i) % 16] : k \in {3, 5}}

\* Uuid::new_v4: the version and variant fields are set over the random bits
NewV4(bits) == [bits EXCEPT ![13] = 4, ![17] = 8 + (bits[17] % 4)]

\* simple().encode_lower: 32 lower-case hexadecimal digits
EncodeLower(u) == [i \in 1..32 |-> HexLower[u[i] + 1]]

\* bytes HeaderValue::from_str rejects: the control bytes below 0x20 other
\* than TAB, and 0x7f, here a line feed and DEL; a byte of 0x80 or above
\* ("<80>") is accepted
ControlBytes == {"<0a>", "<7f>"}
FromStrOk(str) == \A i \in 1..Len(str) : str[i] \notin ControlBytes

\* HeaderValue::from_str(..).unwrap_or_else(..), lines 141-145
HeaderValueFromStr(str) == IF FromStrOk(str) THEN str ELSE Sentinel

\* generate_new_id, lines 138-146
GenerateNewId(bits) == HeaderValueFromStr(EncodeLower(NewV4(bits)))

\* apply_policy, lines 100-109: the authoritative identifier and is_generated
\* (faulty variant: the incoming identifier is kept without preserve_external)
AuthoritativeIgnoresPreserve(m, tracing, access_log, inc, fresh) ==
    IF inc # None THEN [id |-> Some(ToValue(inc[1])), gen |-> FALSE]
    ELSE IF m.generate THEN [id |-> Some(fresh), gen |-> TRUE]
    ELSE IF tracing THEN [id |-> Some(fresh), gen |-> TRUE]
    ELSE IF access_log THEN [id |-> Some(fresh), gen |-> FALSE]
    ELSE [id |-> None, gen |-> FALSE]
\* (faulty variant: a generated identifier is not marked as generated)
AuthoritativeNotGenerated(m, tracing, access_log, inc, fresh) ==
    IF inc # None /\ m.preserve THEN [id |-> Some(ToValue(inc[1])), gen |-> FALSE]
    ELSE IF m.generate \/ tracing \/ access_log THEN [id |-> Some(fresh), gen |-> FALSE]
    ELSE [id |-> None, gen |-> FALSE]
Authoritative(m, tracing, access_log, inc, fresh) ==
    IF inc # None /\ m.preserve THEN [id |-> Some(ToValue(inc[1])), gen |-> FALSE]
    ELSE IF m.generate THEN [id |-> Some(fresh), gen |-> TRUE]
    ELSE IF tracing THEN [id |-> Some(fresh), gen |-> TRUE]
    ELSE IF access_log THEN [id |-> Some(fresh), gen |-> FALSE]
    ELSE [id |-> None, gen |-> FALSE]

\* apply_policy, lines 112-113: should_propagate_header
ShouldPropagate(m, inc) == (inc # None /\ m.preserve) \/ m.generate

\* apply_policy, lines 116-125: the request's header after the call
\* (faulty variant: the header is removed whether or not an identifier came in)
HeaderAlwaysRemoved(should, auth, inc, hdr) ==
    IF should
    THEN IF auth.gen /\ auth.id # None THEN auth.id ELSE hdr
    ELSE None
HeaderAfterPolicy(should, auth, inc, hdr) ==
    IF should
    THEN IF auth.gen /\ auth.id # None THEN auth.id ELSE hdr
    ELSE IF inc # None THEN None ELSE hdr

\* (a variant that wraps every identifier as Propagate)
ResultIdAlwaysPropagate(should, auth) ==
    IF auth.id = None THEN None ELSE Some(Propagate(auth.id[1]))
\* apply_policy, lines 128-132: the RequestId returned
ResultId(should, auth) ==
    IF auth.id = None THEN None
    ELSE IF should THEN Some(Propagate(auth.id[1])) ELSE Some(Internal(auth.id[1]))

\* apply_policy, lines 94-135: the request's header and the identifier
ApplyPolicy(m, tracing, access_log, hdr, inc, fresh) ==
    LET auth == Authoritative(m, tracing, access_log, inc, fresh)
        should == ShouldPropagate(m, inc)
    IN  [hdr |-> HeaderAfterPolicy(should, auth, inc, hdr),
         id |-> ResultId(should, auth),
         drew |-> IF auth.id # None /\ ~(inc # None /\ m.preserve)
                  THEN Some(fresh) ELSE None]

\* (a variant that sets the header whatever always_set_in_response says)
ApplyToIgnoresAlwaysSet(m, resp, arg) == IF arg # None THEN arg ELSE resp
\* apply_to, lines 148-154: the response's header after the call
ApplyTo(m, resp, arg) == IF m.always_set /\ arg # None THEN arg ELSE resp

\* req_id.as_ref().map(AsRef::as_ref): the value of an optional RequestId
OptValue(rid) == IF rid = None THEN None ELSE Some(ToValue(rid[1]))

\* the body variables while the request-id model runs
BodyIdle ==
    /\ mode = "disabled" /\ kind = "Request" /\ inner = 0 /\ polls = 0
    /\ mapped = FALSE
    /\ alive = FALSE /\ bytes_counter = 0 /\ on_complete = "None"
    /\ mutex = NoHolder
    /\ pc = [t \in Threads |-> "gone"]
    /\ flagsArg = [t \in Threads |-> DefaultFlags]
    /\ closure = [t \in Threads |-> "None"]
    /\ poll = NoPoll /\ calls = <<>> /\ lastRet = NoPoll /\ obs = NoObs
    /\ retBytes = 0 /\ retAtCall = <<>> /\ firstTerminal = NoPoll /\ winner = <<>>

\* a request arrives at a proxy configured by RequestIdManager::new (lines 86-92)
InitReqId ==
    /\ manager \in [generate : BOOLEAN, preserve : BOOLEAN, always_set : BOOLEAN]
    /\ featTracing \in BOOLEAN
    /\ accessLog \in BOOLEAN
    /\ origHdr \in {None} \cup {Some(v) : v \in HeaderValues}
    /\ reqHdr = origHdr
    /\ incoming = None
    /\ viaFromRequest = FALSE
    /\ drawn = None
    /\ req_id = None
    /\ respBefore \in {None, Some(HdrUpstream)}
    /\ respHdr = respBefore
    /\ respOther \in {None, Some(HdrContentType)}
    /\ applyArg = None
    /\ stage = "received"
    /\ BodyIdle
    /\ SpanIdle

\* the caller computes the incoming identifier with RequestId::from_request
CallFromRequest ==
    /\ stage = "received"
    /\ incoming' = FromRequest(reqHdr)
    /\ viaFromRequest' = TRUE
    /\ stage' = "parsed"
    /\ UNCHANGED <<manager, featTracing, accessLog, origHdr, reqHdr, drawn, req_id,
                   respBefore, respHdr, respOther, applyArg>>
    /\ UNCHANGED <<bodyVars, spanVars>>

\* the caller passes an identifier of its own choice (as the first test does)
CallerSuppliesIncoming ==
    /\ stage = "received"
    /\ incoming' \in {None, Some(Propagate(HdrHyphenated)), Some(Internal(HdrSimple))}
    /\ viaFromRequest' = FALSE
    /\ stage' = "parsed"
    /\ UNCHANGED <<manager, featTracing, accessLog, origHdr, reqHdr, drawn, req_id,
                   respBefore, respHdr, respOther, applyArg>>
    /\ UNCHANGED <<bodyVars, spanVars>>

\* RequestIdManager::apply_policy, lines 94-135
CallApplyPolicy ==
    /\ stage = "parsed"
    /\ \E bits \in RandomBits :
        LET out == ApplyPolicy(manager, featTracing, accessLog, reqHdr, incoming,
                               GenerateNewId(bits))
        IN  /\ reqHdr' = out.hdr
            /\ req_id' = out.id
            /\ drawn' = out.drew
    /\ stage' = "policy"
    /\ UNCHANGED <<manager, featTracing, accessLog, origHdr, incoming, viaFromRequest,
                   respBefore, respHdr, respOther, applyArg>>
    /\ UNCHANGED <<bodyVars, spanVars>>

\* RequestIdManager::apply_to, lines 148-154, with the identifier apply_policy
\* returned or with none
CallApplyTo ==
    /\ stage = "policy"
    /\ \E arg \in {OptValue(req_id), None} :
        /\ applyArg' = arg
        /\ respHdr' = ApplyTo(manager, respHdr, arg)
    /\ stage' = "responded"
    /\ UNCHANGED <<manager, featTracing, accessLog, origHdr, reqHdr, incoming,
                   viaFromRequest, drawn, req_id, respBefore, respOther>>
    /\ UNCHANGED <<bodyVars, spanVars>>

NextReqId ==
    \/ CallFromRequest
    \/ CallerSuppliesIncoming
    \/ CallApplyPolicy
    \/ CallApplyTo

SpecReqId == InitReqId /\ [][NextReqId]_vars

(***************************************************************************)
(* span_state.rs and the with_server_span / with_client_span macros of     *)
(* tracing_attributes.rs.  A span is a record of its name, the number of   *)
(* times its end() was called and the number of closures applied to it.    *)
(***************************************************************************)
\* a BoxedSpan as the tracer hands it out
NewSpan(s) == [name |-> s, ended |-> 0, touched |-> 0]

\* Mutex::lock() on a slot: granted when nobody holds it
\* (faulty variant: a lock that excludes nobody)
SpanLockAlwaysGranted(l) == TRUE
SpanLockFree(l) == l = NoHolder

\* end(), lines 35-37 and 41-43: if let Some(ref mut span) = *guard { span.end() }
\* (faulty variants: the span is not ended; the span is taken out of the slot)
EndSpanSkipped(slot) == slot
EndSpanTaken(slot) == None
EndSpan(slot) ==
    IF slot = None THEN None ELSE Some([slot[1] EXCEPT !.ended = @ + 1])

\* drop of a MutexGuard: the lock is released
\* (faulty variant: the guard is leaked and the lock stays held)
GuardForgotten(l) == l
GuardDropped(l) == NoHolder

\* with_*_span: if let Some(span) = slot.lock().as_mut() { closure(span) }
ApplyClosure(slot) ==
    IF slot = None THEN None ELSE Some([slot[1] EXCEPT !.touched = @ + 1])

\* the slot a with_*_span thread works on, from its position
SlotOf(p) == IF p \in {"ws_lock", "ws_call", "ws_unlock"} THEN "server_span"
             ELSE "client_span"

\* SpanState::new (lines 28-30) gives the server slot its span or None and
\* an empty client slot; the owner fills the client slot through the pub
\* field before the threads modelled here begin
InitSpan ==
    /\ created \in [Slots -> BOOLEAN]
    /\ span = [s \in Slots |-> IF created[s] THEN Some(NewSpan(s)) ELSE None]
    /\ lock = [s \in Slots |-> NoHolder]
    /\ spc = [t \in SpanThreads |-> "idle"]
    /\ endsDone = 0
    /\ closureRuns = [s \in Slots |-> 0]
    /\ spanOps = 0
    /\ BodyIdle
    /\ ReqIdle

\* a thread calls end() (line 32)
CallEnd(t) ==
    /\ spc[t] = "idle" /\ spanOps < MaxSpanOps
    /\ spc' = [spc EXCEPT ![t] = "e_lock_srv"]
    /\ spanOps' = spanOps + 1
    /\ UNCHANGED <<span, lock, created, endsDone, closureRuns>>
    /\ UNCHANGED <<bodyVars, reqVars>>

\* end(), line 34: let mut guard = self.server_span.lock()
EndLockServer(t) ==
    /\ spc[t] = "e_lock_srv"
    /\ SpanLockFree(lock["server_span"])
    /\ lock' = [lock EXCEPT !["server_span"] = t]
    /\ spc' = [spc EXCEPT ![t] = "e_end_srv"]
    /\ UNCHANGED <<span, created, endsDone, closureRuns, spanOps>>
    /\ UNCHANGED <<bodyVars, reqVars>>

\* end(), lines 35-37: end the server span if there is one
EndServerSpan(t) ==
    /\ spc[t] = "e_end_srv"
    /\ span' = [span EXCEPT !["server_span"] = EndSpan(@)]
    /\ spc' = [spc EXCEPT ![t] = "e_lock_cli"]
    /\ UNCHANGED <<lock, created, endsDone, closureRuns, spanOps>>
    /\ UNCHANGED <<bodyVars, reqVars>>

\* end(), line 40: let mut guard = self.client_span.lock(); the new binding
\* shadows the first guard, which lives on to the end of the function
EndLockClient(t) ==
    /\ spc[t] = "e_lock_cli"
    /\ SpanLockFree(lock["client_span"])
    /\ lock' = [lock EXCEPT !["client_span"] = t]
    /\ spc' = [spc EXCEPT ![t] = "e_end_cli"]
    /\ UNCHANGED <<span, created, endsDone, closureRuns, spanOps>>
    /\ UNCHANGED <<bodyVars, reqVars>>

\* end(), lines 41-43: end the client span if there is one
EndClientSpan(t) ==
    /\ spc[t] = "e_end_cli"
    /\ span' = [span EXCEPT !["client_span"] = EndSpan(@)]
    /\ spc' = [spc EXCEPT ![t] = "e_unlock_cli"]
    /\ UNCHANGED <<lock, created, endsDone, closureRuns, spanOps>>
    /\ UNCHANGED <<bodyVars, reqVars>>

\* end(), line 44: the locals are dropped in reverse order of declaration:
\* first the guard of the client slot ...
EndUnlockClient(t) ==
    /\ spc[t] = "e_unlock_cli"
    /\ lock' = [lock EXCEPT !["client_span"] = GuardDropped(@)]
    /\ spc' = [spc EXCEPT ![t] = "e_unlock_srv"]
    /\ UNCHANGED <<span, created, endsDone, closureRuns, spanOps>>
    /\ UNCHANGED <<bodyVars, reqVars>>

\* ... then the guard of the server slot, and end() returns
EndUnlockServer(t) ==
    /\ spc[t] = "e_unlock_srv"
    /\ lock' = [lock EXCEPT !["server_span"] = GuardDropped(@)]
    /\ spc' = [spc EXCEPT ![t] = "idle"]
    /\ endsDone' = endsDone + 1
    /\ UNCHANGED <<span, created, closureRuns, spanOps>>
    /\ UNCHANGED <<bodyVars, reqVars>>

\* a thread invokes with_server_span! or with_client_span! on the SpanState
\* (tracing_attributes.rs, lines 40-50 and 52-62)
CallWithSpan(t) ==
    /\ spc[t] = "idle" /\ spanOps < MaxSpanOps
    /\ \E p \in {"ws_lock", "wc_lock"} : spc' = [spc EXCEPT ![t] = p]
    /\ spanOps' = spanOps + 1
    /\ UNCHANGED <<span, lock, created, endsDone, closureRuns>>
    /\ UNCHANGED <<bodyVars, reqVars>>

\* lines 45 and 57: valid_span_state.server_span.lock() / client_span.lock()
WithSpanLock(t) ==
    /\ spc[t] \in {"ws_lock", "wc_lock"}
    /\ SpanLockFree(lock[SlotOf(spc[t])])
    /\ lock' = [lock EXCEPT ![SlotOf(spc[t])] = t]
    /\ spc' = [spc EXCEPT ![t] = IF spc[t] = "ws_lock" THEN "ws_call" ELSE "wc_call"]
    /\ UNCHANGED <<span, created, endsDone, closureRuns, spanOps>>
    /\ UNCHANGED <<bodyVars, reqVars>>

\* lines 45-47 and 57-59: if let Some(span) = guard.as_mut() { closure(span) }
WithSpanCall(t) ==
    /\ spc[t] \in {"ws_call", "wc_call"}
    /\ LET s == SlotOf(spc[t])
       IN  /\ span' = [span EXCEPT ![s] = ApplyClosure(@)]
           /\ closureRuns' = [closureRuns EXCEPT
                                ![s] = IF span[s] = None THEN @ ELSE @ + 1]
    /\ spc' = [spc EXCEPT ![t] = IF spc[t] = "ws_call" THEN "ws_unlock" ELSE "wc_unlock"]
    /\ UNCHANGED <<lock, created, endsDone, spanOps>>
    /\ UNCHANGED <<bodyVars, reqVars>>

\* lines 47 and 59: the temporary MutexGuard is dropped at the end of the if let
WithSpanUnlock(t) ==
    /\ spc[t] \in {"ws_unlock", "wc_unlock"}
    /\ lock' = [lock EXCEPT ![SlotOf(spc[t])] = GuardDropped(@)]
    /\ spc' = [spc EXCEPT ![t] = "idle"]
    /\ UNCHANGED <<span, created, endsDone, closureRuns, spanOps>>
    /\ UNCHANGED <<bodyVars, reqVars>>

NextSpan ==
    \/ \E t \in SpanThreads : CallEnd(t)
    \/ \E t \in SpanThreads : EndLockServer(t)
    \/ \E t \in SpanThreads : EndServerSpan(t)
    \/ \E t \in SpanThreads : EndLockClient(t)
    \/ \E t \in SpanThreads : EndClientSpan(t)
    \/ \E t \in SpanThreads : EndUnlockClient(t)
    \/ \E t \in SpanThreads : EndUnlockServer(t)
    \/ \E t \in SpanThreads : CallWithSpan(t)
    \/ \E t \in SpanThreads : WithSpanLock(t)
    \/ \E t \in SpanThreads : WithSpanCall(t)
    \/ \E t \in SpanThreads : WithSpanUnlock(t)

SpecSpan == InitSpan /\ [][NextSpan]_vars

\* the steps of a thread inside a call: everything but the start of a call
SpanThreadStep(t) ==
    \/ EndLockServer(t) \/ EndServerSpan(t) \/ EndLockClient(t) \/ EndClientSpan(t)
    \/ EndUnlockClient(t) \/ EndUnlockServer(t)
    \/ WithSpanLock(t) \/ WithSpanCall(t) \/ WithSpanUnlock(t)

\* the threads are scheduled: a thread inside a call that can take its next
\* step (it is not waiting, or the lock it waits for stays free) takes it
FairSpecSpan == SpecSpan /\ \A t \in SpanThreads : WF_vars(SpanThreadStep(t))

(***************************************************************************)
(* Properties of BodyWithMetrics (SpecBody).                               *)
(***************************************************************************)
\* a clone of the guard has been handed out
EverCloned == \E g \in Clones : pc[g] # "none"
\* the wrapper is dropped and its drop has run to the end
BodyGone == ~alive /\ pc[Owner] = "gone"

\* C1: a body that is polled and then dropped invokes on_complete exactly
\* once over its lifetime (never twice at any point, once when the drop has
\* run), and when the invocation comes from a poll or from the drop of the
\* wrapper the byte count it receives is the total length of the data frames
\* poll_frame had returned before the invocation.
C1_ExactlyOnceWithReturnedBytes ==
    mode = "enabled" =>
        /\ Len(calls) <= 1
        /\ BodyGone => Len(calls) = 1
        /\ Len(calls) = 1 /\ winner[1].by # "clone" => calls[1].bytes = retAtCall[1]

\* C1 witness: three polls returned two data frames and end-of-stream, the
\* wrapper was dropped, and the one invocation received the two frames' bytes
C1_Witness ==
    /\ mode = "enabled" /\ BodyGone /\ ~EverCloned
    /\ polls = 3 /\ firstTerminal = EndOfStream
    /\ calls = <<[bytes |-> 3, flags |-> DefaultFlags]>>
    /\ retAtCall = <<3>>

\* C2: when the wrapper is dropped before any poll produced end-of-stream or
\* an error (and no guard clone was handed out), the closure has not run
\* while the wrapper lives and runs exactly once in the drop, with the
\* default flags and the bytes counted so far; whatever happened before, a
\* wrapper whose drop has run has delivered its completion, and the drop is
\* never held up for good: the lock it waits for is only ever held by a
\* thread inside trigger_on_complete, on its way to releasing it.
C2_DropDeliversDefaultCompletion ==
    mode = "enabled" =>
        /\ mutex # NoHolder => pc[mutex] \in {"take", "call", "unlock"}
        /\ firstTerminal = NoPoll /\ ~EverCloned =>
            /\ alive => calls = <<>>
            /\ BodyGone =>
                /\ calls = <<[bytes |-> bytes_counter, flags |-> DefaultFlags]>>
                /\ winner = <<[by |-> "drop"]>>
                /\ retAtCall = <<retBytes>>
        /\ BodyGone => Len(calls) = 1 /\ on_complete = "None"

\* C2 witness: dropped after two polls (a data frame, then pending), the
\* drop delivered the default completion with the frame's bytes
C2_Witness ==
    /\ mode = "enabled" /\ BodyGone /\ ~EverCloned /\ firstTerminal = NoPoll
    /\ polls = 2 /\ poll = Pending
    /\ calls = <<[bytes |-> 2, flags |-> DefaultFlags]>>

\* C3: whatever triggers run (polls producing end-of-stream or an error, the
\* drop of the wrapper, drops of guard clones) and however their threads
\* interleave, the closure is invoked at most once: the triggers exclude one
\* another on the lock, at most one of them ever holds the closure, and once
\* it has been invoked the slot is empty.
C3_AtMostOneTriggerWins ==
    /\ Len(calls) <= 1
    /\ Len(winner) = Len(calls)
    /\ Cardinality({t \in Threads : pc[t] \in {"take", "call", "unlock"}}) <= 1
    /\ Cardinality({t \in Threads : closure[t] = "Some"}) <= 1
    /\ Len(calls) = 1 => on_complete = "None"
    /\ (\E t \in Threads : closure[t] = "Some" /\ pc[t] = "unlock") => Len(calls) = 1

\* C3 witness: a poll produced end-of-stream, a guard clone was dropped and
\* the wrapper was dropped; all three triggers have run and one invocation
\* was made, by the clone's drop
C3_Witness ==
    /\ mode = "enabled" /\ BodyGone /\ firstTerminal = EndOfStream
    /\ \A g \in Clones : pc[g] = "gone"
    /\ Len(calls) = 1 /\ winner = <<[by |-> "clone"]>>

\* C4: when a poll's trigger takes the closure for an error of the inner
\* body, the closure is invoked once with the classifier's flags for that
\* error and the body's kind, and nothing later (the drop of the wrapper, a
\* clone's drop) invokes it again or replaces these flags; with no guard
\* clone about, the first error or end-of-stream the inner body produces is
\* the one that completes; and the error is returned to the consumer as the
\* inner body produced it.
C4_ErrorClassifiedOnceAndReturned ==
    mode = "enabled" =>
        /\ Len(winner) >= 1 /\ winner[1].by = "poll" /\ winner[1].r.t = "err" =>
            /\ Len(calls) = 1
            /\ calls[1].flags = Classify(winner[1].r.e, kind)
        /\ firstTerminal.t = "err" /\ ~EverCloned =>
            \/ alive /\ pc[Owner] \in {"lock", "take", "call"} /\ calls = <<>>
            \/ /\ Len(calls) = 1
               /\ calls[1].flags = Classify(firstTerminal.e, kind)
               /\ winner[1] = [by |-> "poll", r |-> firstTerminal]
        /\ poll.t = "err" /\ lastRet # NoPoll => lastRet = poll

\* C4 witness: after a data frame the inner body failed with E2; the error
\* was returned, the wrapper was then dropped, and the one invocation still
\* carries the flags of E2
C4_Witness ==
    /\ mode = "enabled" /\ BodyGone /\ lastRet = ErrorResult("E2")
    /\ winner = <<[by |-> "poll", r |-> ErrorResult("E2")]>>
    /\ calls = <<[bytes |-> 1, flags |-> Classify("E2", kind)]>>

\* C5: in the instrumented and in the passthrough variant alike, every
\* poll_frame returns what the inner body produced at that poll, and
\* is_end_stream and size_hint answer what the inner body answers; the
\* passthrough never invokes the closure.
C5_TransparentToConsumer ==
    /\ lastRet # NoPoll => lastRet = poll
    /\ obs.valid =>
        /\ obs.end = InnerIsEndStream(inner)
        /\ obs.hint = InnerSizeHint(inner)
    /\ mode = "disabled" => calls = <<>> /\ bytes_counter = 0

\* C5 witness: the instrumented body returned an error at its second poll
\* and then answered is_end_stream and size_hint with two bytes still left
C5_Witness ==
    /\ mode = "enabled" /\ alive /\ polls = 2
    /\ lastRet = ErrorResult("E1")
    /\ obs.valid /\ ~obs.end /\ obs.hint = 2

\* a guard clone has been dropped (its drop has at least begun)
CloneDropped == \E g \in Clones : pc[g] \notin {"none", "held"}

\* C15: the byte count the closure received is the final count: once the
\* wrapper and every guard clone are gone, the count reported by the one
\* invocation equals the counter and equals the total length of the data
\* frames poll_frame returned over the body's lifetime, whatever polls were
\* made (also after an error or end-of-stream) and whenever a guard clone
\* was dropped.
C15_ReportedCountIsFinalCount ==
    /\ mode = "enabled" /\ BodyGone
    /\ \A g \in Clones : pc[g] \in {"none", "gone"}
    /\ Len(calls) = 1
    => calls[1].bytes = bytes_counter /\ calls[1].bytes = retBytes

\* C16: a poll for which the inner body is Pending changes neither the byte
\* counter nor the completion slot nor the inner body, invokes nothing,
\* takes no lock and goes straight to its return, where Pending is handed
\* to the consumer; so the polls that follow find the state a poll without
\* the Pending ones would find, and the closure's arguments are the same.
C16_PendingPollHasNoEffect ==
    [][/\ polls' = polls + 1 /\ poll' = Pending =>
            /\ bytes_counter' = bytes_counter /\ on_complete' = on_complete
            /\ calls' = calls /\ mutex' = mutex /\ closure' = closure
            /\ inner' = inner /\ firstTerminal' = firstTerminal
            /\ mode = "enabled" => pc'[Owner] = "ret"
            /\ mode = "disabled" => lastRet' = Pending /\ pc' = pc
       /\ pc[Owner] = "ret" /\ pc'[Owner] = "idle" /\ poll = Pending =>
            /\ lastRet' = Pending /\ retBytes' = retBytes
            /\ bytes_counter' = bytes_counter /\ on_complete' = on_complete
            /\ calls' = calls /\ mutex' = mutex]_vars

\* C16 witness: a data frame of two bytes, then a poll that returned
\* Pending: the counter still holds two, the slot its closure, no invocation
C16_Witness ==
    /\ mode = "enabled" /\ alive /\ pc[Owner] = "idle" /\ ~EverCloned
    /\ polls = 2 /\ poll = Pending /\ lastRet = Pending
    /\ bytes_counter = 2 /\ retBytes = 2
    /\ on_complete = "Some" /\ calls = <<>>

\* C19: completion is never premature: whenever the closure has been
\* invoked, a poll of the inner body had produced end-of-stream or an error
\* (which poll_frame returns), or the wrapper was dropped, or a guard clone
\* was dropped, and the winning trigger is one of these; so as long as the
\* wrapper lives, no guard clone was dropped and the polls produced only
\* data frames, trailers and Pending, the closure has not been invoked,
\* whatever is_end_stream answered and whether or not map_into was called.
C19_CompletionNeverPremature ==
    mode = "enabled" =>
        /\ calls # <<>> =>
            /\ firstTerminal # NoPoll \/ ~alive \/ CloneDropped
            /\ winner[1].by = "poll" => winner[1].r.t \in {"end", "err"}
            /\ winner[1].by = "drop" => ~alive
            /\ winner[1].by = "clone" => CloneDropped
        /\ alive /\ firstTerminal = NoPoll /\ ~CloneDropped =>
            calls = <<>> /\ on_complete = "Some"

\* C19 witness: map_into was called, two polls returned all three bytes of
\* data, is_end_stream would answer true, and only the third poll, which
\* produced end-of-stream, invoked the closure
C19_Witness ==
    /\ mode = "enabled" /\ alive /\ mapped /\ ~EverCloned
    /\ polls = 3 /\ inner = 0 /\ InnerIsEndStream(inner)
    /\ firstTerminal = EndOfStream /\ winner = <<[by |-> "poll", r |-> EndOfStream]>>
    /\ calls = <<[bytes |-> 3, flags |-> DefaultFlags]>> /\ retAtCall = <<3>>

\* C20: the byte counter starts at 0 and never decreases; a step changes it
\* only when it is a poll of the instrumented body that produced a data
\* frame, and then by that frame's length; a poll that produced trailers,
\* Pending, an error or end-of-stream, and every step that is not a poll
\* (is_end_stream, size_hint, map_into, the steps of trigger_on_complete,
\* drops) leave it as it is.
C20_CounterCountsDataFramesOnly ==
    /\ bytes_counter = 0
    /\ [][/\ bytes_counter' >= bytes_counter
          /\ bytes_counter' # bytes_counter =>
                mode = "enabled" /\ polls' = polls + 1 /\ poll'.t = "data"
          /\ polls' = polls + 1 /\ mode = "enabled" =>
                bytes_counter' = bytes_counter + (IF poll'.t = "data" THEN poll'.n ELSE 0)
          /\ polls' = polls => bytes_counter' = bytes_counter]_vars

\* C20 witness: data frames of one and two bytes, then a trailers frame,
\* with map_into and is_end_stream called on the way: the counter holds three
C20_Witness ==
    /\ mode = "enabled" /\ alive /\ mapped /\ obs.valid
    /\ polls = 3 /\ poll = Trailers /\ lastRet = Trailers
    /\ bytes_counter = 3 /\ retBytes = 3 /\ calls = <<>>

(***************************************************************************)
(* Properties of the request-id policy (SpecReqId).                        *)
(***************************************************************************)
\* apply_policy has returned
PastPolicy == stage \in {"policy", "responded"}
\* the header values that are not well-formed identifiers
Malformed == {HdrBroken, HdrBadDigit, HdrEmpty, HdrOpaque}
\* "Propagate", "Internal" or "none": the kind of an optional RequestId
KindOf(rid) == IF rid = None THEN "none" ELSE rid[1].kind

\* C6: for every configuration, incoming identifier and pair of capability
\* flags, with should_propagate = (incoming present and preserve_external)
\* or generate: apply_policy puts the authoritative value in the header
\* exactly when should_propagate holds and the value was freshly generated,
\* removes the header exactly when should_propagate does not hold and an
\* incoming identifier was given, and otherwise leaves the header as received.
C6_HeaderMutationTable ==
    PastPolicy =>
        LET present == incoming # None
            should == (present /\ manager.preserve) \/ manager.generate
            fresh == /\ ~(present /\ manager.preserve)
                     /\ (manager.generate \/ featTracing \/ accessLog)
        IN  /\ fresh <=> drawn # None
            /\ fresh => OptValue(req_id) = drawn
            /\ reqHdr = IF should /\ fresh THEN OptValue(req_id)
                        ELSE IF ~should /\ present THEN None
                        ELSE origHdr

\* C6 witness: with generate and preserve_external off, the well-formed
\* header of the request was removed
C6_Witness ==
    /\ PastPolicy /\ viaFromRequest
    /\ ~manager.generate /\ ~manager.preserve
    /\ origHdr = Some(HdrHyphenated) /\ incoming = Some(Propagate(HdrHyphenated))
    /\ reqHdr = None

\* C7: whenever apply_policy, given from_request's result for the same
\* request, returns an Internal identifier or none, the outbound request
\* carries no request-id header, whatever the header was on arrival.
C7_InternalOrNoneLeavesNoHeader ==
    PastPolicy /\ viaFromRequest /\ KindOf(req_id) \in {"Internal", "none"}
        => reqHdr = None

\* C8: a request whose header is malformed or empty goes through
\* from_request, apply_policy and apply_to as the same request without the
\* header does: from_request gives no identifier, the resulting identifier
\* is of the same kind, the outbound request has the header in the same
\* cases, and the response header ends up the same.
C8_MalformedHandledAsAbsent ==
    viaFromRequest /\ origHdr # None /\ origHdr[1] \in Malformed =>
        LET fresh == IF drawn # None THEN drawn[1] ELSE Sentinel
            twin == ApplyPolicy(manager, featTracing, accessLog, None,
                                FromRequest(None), fresh)
        IN  /\ incoming = None
            /\ PastPolicy =>
                /\ KindOf(req_id) = KindOf(twin.id)
                /\ (reqHdr = None) <=> (twin.hdr = None)
            /\ stage = "responded" /\ applyArg = OptValue(req_id) =>
                respHdr = ApplyTo(manager, respBefore, OptValue(twin.id))

\* C9: whenever apply_policy, given from_request's result for the same
\* request, returns Propagate(v), the outbound request carries the header
\* with the value v; and when the incoming identifier is present and
\* preserve_external is set, v is the incoming value and the header is the
\* one the request arrived with.
C9_PropagatedValueIsOnTheWire ==
    PastPolicy /\ viaFromRequest /\ KindOf(req_id) = "Propagate" =>
        /\ reqHdr = Some(req_id[1].id)
        /\ incoming # None /\ manager.preserve =>
            /\ req_id[1].id = incoming[1].id
            /\ req_id[1].id = origHdr[1]
            /\ reqHdr = origHdr

\* C9 witness: generate and preserve_external set, the request arrived with
\* the well-formed value, which is returned as Propagate and still on the wire
C9_Witness ==
    /\ PastPolicy /\ viaFromRequest
    /\ manager.generate /\ manager.preserve
    /\ origHdr = Some(HdrHyphenated)
    /\ req_id = Some(Propagate(HdrHyphenated))
    /\ reqHdr = Some(HdrHyphenated)

\* C10 as stated: with generate set, preserve_external not set and an
\* incoming identifier, apply_policy returns Propagate of a generated value,
\* the outbound header holds it, and that value is different from the
\* incoming one; with generate set and no incoming identifier a generated
\* value is inserted and returned as Propagate.
C10_FreshValueDiffersFromIncoming ==
    PastPolicy /\ manager.generate /\ (~manager.preserve \/ incoming = None) =>
        /\ drawn # None
        /\ req_id = Some(Propagate(drawn[1]))
        /\ reqHdr = drawn
        /\ incoming # None => drawn[1] # incoming[1].id

\* C10 amended: with generate set, and preserve_external not set or no
\* incoming identifier given, apply_policy returns Propagate of the value
\* generate_new_id produced in this call (a version-4 identifier, 32
\* lower-case hexadecimal digits) and the outbound header holds exactly that
\* value. The incoming identifier and the header on arrival have no part in
\* the result: it is what the same call with the same draw gives for a
\* request without header and without incoming identifier. So the incoming
\* value is on the outbound request only in case the draw coincides with it,
\* and without an incoming identifier the generated value is inserted.
C10_GenerateWithoutPreserveReplaces ==
    PastPolicy /\ manager.generate /\ (~manager.preserve \/ incoming = None) =>
        /\ drawn # None
        /\ \E bits \in RandomBits : drawn[1] = EncodeLower(NewV4(bits))
        /\ req_id = Some(Propagate(drawn[1]))
        /\ reqHdr = drawn
        /\ LET bare == ApplyPolicy(manager, featTracing, accessLog, None, None, drawn[1])
           IN  reqHdr = bare.hdr /\ req_id = bare.id
        /\ incoming # None =>
            ((reqHdr[1] = incoming[1].id) <=> (drawn[1] = incoming[1].id))
        /\ origHdr # None => ((reqHdr = origHdr) <=> (drawn[1] = origHdr[1]))

\* C10 witness: generate and preserve_external set, the request arrived
\* without the header (the tests' third case): a generated value was
\* inserted and returned as Propagate
C10_Witness ==
    /\ PastPolicy /\ viaFromRequest
    /\ manager.generate /\ manager.preserve
    /\ origHdr = None /\ incoming = None
    /\ drawn # None /\ reqHdr = drawn
    /\ req_id = Some(Propagate(drawn[1]))

\* C11: for every combination of incoming present, preserve_external and
\* generate, crossed with the tracing capability and access_log_enabled, the
\* identifier apply_policy returns is Propagate exactly when (incoming
\* present and preserve_external) or generate holds, is absent exactly when
\* that condition fails and both capability flags are off, and is Internal
\* in all remaining cases, then wrapping the value generated by this call;
\* a Propagate identifier wraps the incoming value when that is preserved
\* and the generated value otherwise.
C11_IdentifierKindTable ==
    PastPolicy =>
        LET present == incoming # None
            should == (present /\ manager.preserve) \/ manager.generate
            observing == featTracing \/ accessLog
        IN  /\ KindOf(req_id) = "Propagate" <=> should
            /\ KindOf(req_id) = "none" <=> ~should /\ ~observing
            /\ KindOf(req_id) = "Internal" <=> ~should /\ observing
            /\ KindOf(req_id) = "Internal" =>
                drawn # None /\ req_id = Some(Internal(drawn[1]))
            /\ KindOf(req_id) = "Propagate" =>
                req_id[1].id = IF present /\ manager.preserve THEN incoming[1].id
                               ELSE drawn[1]

\* C11 witness: generate and preserve_external off, only access logging on,
\* an incoming identifier given: the result is Internal of a generated value
C11_Witness ==
    /\ PastPolicy /\ ~manager.generate /\ ~manager.preserve
    /\ ~featTracing /\ accessLog
    /\ incoming = Some(Propagate(HdrHyphenated))
    /\ drawn # None /\ req_id = Some(Internal(drawn[1]))

\* C12: a call of apply_to sets the response's x-request-id header to the
\* given identifier's value when always_set_in_response is true and an
\* identifier (Propagate or Internal) is supplied, replacing a value already
\* there; when always_set_in_response is false or no identifier is supplied
\* the header is as before the call. The call never removes the header and
\* changes no other header of the response, nor the request.
C12_ApplyToFrame ==
    [][stage = "policy" /\ stage' = "responded" =>
        /\ manager.always_set /\ applyArg' # None => respHdr' = applyArg'
        /\ ~manager.always_set \/ applyArg' = None => respHdr' = respHdr
        /\ respHdr # None => respHdr' # None
        /\ respOther' = respOther
        /\ reqHdr' = reqHdr /\ req_id' = req_id]_vars

\* C12 witness: always_set_in_response on, the response arrived with an
\* upstream x-request-id and a content-type; apply_to was given an Internal
\* identifier and its value replaced the upstream one
C12_Witness ==
    /\ stage = "responded" /\ manager.always_set
    /\ KindOf(req_id) = "Internal" /\ applyArg = OptValue(req_id)
    /\ respBefore = Some(HdrUpstream) /\ respOther = Some(HdrContentType)
    /\ respHdr = applyArg /\ respHdr # respBefore

(***************************************************************************)
(* Properties of SpanState (SpecSpan).                                     *)
(***************************************************************************)
\* positions inside end()
InEnd == {"e_lock_srv", "e_end_srv", "e_lock_cli", "e_end_cli", "e_unlock_cli",
          "e_unlock_srv"}
\* calls of end() begun so far
EndsStarted == endsDone + Cardinality({t \in SpanThreads : spc[t] \in InEnd})
\* calls of end() that have gone past the given slot
EndsPast(s) ==
    endsDone + Cardinality({t \in SpanThreads : spc[t] \in
        IF s = "server_span"
        THEN {"e_lock_cli", "e_end_cli", "e_unlock_cli", "e_unlock_srv"}
        ELSE {"e_unlock_cli", "e_unlock_srv"}})
\* positions at which a thread is about to touch the span of the slot
Accessing(s) == IF s = "server_span" THEN {"e_end_srv", "ws_call"}
                ELSE {"e_end_cli", "wc_call"}

\* C13: over one call of end(), for each of the four combinations of
\* populated and empty slots: a populated slot's span has been ended once
\* when the call has gone past that slot (and not before), so once on each
\* populated slot when the call has returned; an empty slot is still empty;
\* with both slots empty the call changes nothing.
C13_EndEndsPopulatedSlots ==
    EndsStarted = 1 =>
        \A s \in Slots :
            /\ created[s] => span[s] # None /\ span[s][1].ended = EndsPast(s)
            /\ ~created[s] => span[s] = None
            /\ endsDone = 1 /\ created[s] => span[s][1].ended = 1

\* C13 witness: end() has returned on a SpanState with a server span and an
\* empty client slot; the server span was ended once
C13_Witness ==
    /\ endsDone = 1 /\ EndsStarted = 1
    /\ created = [s \in Slots |-> s = "server_span"]
    /\ span["server_span"] # None /\ span["server_span"][1].ended = 1
    /\ span["client_span"] = None

\* C14: a thread inside end() never holds the lock of the server slot and
\* the lock of the client slot at the same time, and while a thread is at
\* the client slot in end() the lock of the server slot is not held by it,
\* so a thread waiting in with_server_span is not kept waiting by it.
C14_EndHoldsOneLockAtATime ==
    \A t \in SpanThreads :
        /\ ~(lock["server_span"] = t /\ lock["client_span"] = t)
        /\ spc[t] \in {"e_lock_cli", "e_end_cli", "e_unlock_cli"} =>
            lock["server_span"] # t

\* C17: end() leaves the slots as they were: a slot populated at the start
\* holds the same span ever after, an empty slot stays empty; and end() ends
\* a populated slot's span every time it is called: after n calls have gone
\* past a slot its span has been ended n times, so n times on each populated
\* slot when n calls have returned.
C17_EndKeepsSlotsAndRepeats ==
    \A s \in Slots :
        /\ (span[s] # None) <=> created[s]
        /\ created[s] =>
            /\ span[s][1].name = s
            /\ span[s][1].ended = EndsPast(s)
            /\ (\A t \in SpanThreads : spc[t] = "idle") => span[s][1].ended = endsDone

\* C17 witness: three calls of end() have returned on a SpanState with both
\* spans; each span is still in its slot and was ended three times
C17_Witness ==
    /\ endsDone = 3 /\ \A t \in SpanThreads : spc[t] = "idle"
    /\ \A s \in Slots : created[s] /\ span[s] # None /\ span[s][1].ended = 3

\* C18: a thread about to touch a slot's span, in end() or in a with_*_span
\* macro, holds that slot's lock, and at most one thread is at such a point
\* for a slot, in every interleaving; a closure of with_*_span has run only
\* on a populated slot, once for every closure counted on the span.
C18_SpanAccessUnderItsLock ==
    \A s \in Slots :
        /\ \A t \in SpanThreads : spc[t] \in Accessing(s) => lock[s] = t
        /\ Cardinality({t \in SpanThreads : spc[t] \in Accessing(s)}) <= 1
        /\ closureRuns[s] > 0 => created[s] /\ span[s] # None
        /\ span[s] # None => span[s][1].touched = closureRuns[s]

\* C18 witness: a closure has run on the server span; now one thread is in
\* with_server_span about to run its closure, holding the lock, while
\* another, in end(), waits for the same lock
C18_Witness ==
    /\ closureRuns["server_span"] = 1
    /\ \E t, u \in SpanThreads :
        /\ t # u /\ spc[t] = "ws_call" /\ spc[u] = "e_lock_srv"
        /\ lock["server_span"] = t

\* positions at which a thread waits for the lock of the given slot
WaitingFor(s) == IF s = "server_span" THEN {"e_lock_srv", "ws_lock"}
                 ELSE {"e_lock_cli", "wc_lock"}
\* the thread can take its next step: it is inside a call and is not
\* waiting for a lock that another thread holds
CanStep(t) ==
    /\ spc[t] # "idle"
    /\ \A s \in Slots : spc[t] \in WaitingFor(s) => lock[s] = NoHolder

\* C21: for every mix of end(), with_server_span and with_client_span calls
\* of several threads on one SpanState (closures touching their own span
\* only), no deadlock is reachable: whenever some thread is inside a call,
\* some thread can take its next step, and a thread waits only for a lock
\* whose holder is itself inside a call and not waiting for the lock of the
\* server slot; and every call that has begun eventually returns.
C21_EveryCallReturns ==
    /\ []((\E t \in SpanThreads : spc[t] # "idle") => \E t \in SpanThreads : CanStep(t))
    /\ [](\A s \in Slots : lock[s] # NoHolder =>
            /\ spc[lock[s]] \notin {"idle", "e_lock_srv", "ws_lock"}
            /\ spc[lock[s]] \in WaitingFor("client_span") => s = "server_span")
    /\ \A t \in SpanThreads : (spc[t] # "idle") ~> (spc[t] = "idle")

\* C21 witness: one end() has returned; now a thread inside end() holds both
\* locks while another waits in with_server_span for the lock of the server
\* slot
C21_Witness ==
    /\ endsDone = 1
    /\ \E t, u \in SpanThreads :
        /\ t # u /\ spc[t] = "e_unlock_cli" /\ spc[u] = "ws_lock"
        /\ lock["server_span"] = t /\ lock["client_span"] = t

====
